---- MODULE Spec2Model ----
(***************************************************************************)
(* Custom-label index of the sf-ext-plus editor extension.                 *)
(*                                                                         *)
(* The repository keeps several revisions of the label code side by side.  *)
(* The variable `revision` fixes, for a whole behaviour, which one runs:   *)
(*   "main"  : labels/main.ts as in src/unnamed/part_006 (parseLabelFile   *)
(*             resets the store at the start of every file's batch);       *)
(*   "load"  : src/src/commands/labels/load.ts, second snapshot (lines     *)
(*             139-286: no reset) with src/src/commands/labels/create.ts;  *)
(*   "store" : the same loader with the creation workflow of               *)
(*             src/unnamed/part_003.                                       *)
(*                                                                         *)
(* The extension host is single-threaded: every action below is one        *)
(* synchronous run of code between two suspension points (await), so every *)
(* state of the model is a point at which another task may run.            *)
(***************************************************************************)
EXTENDS Integers, Sequences, FiniteSets, TLC

(* ------------------------------ bounds --------------------------------- *)
MaxFiles == 2
MaxLabels == 2
MaxReloads == 2
MaxEdits == 1
MaxDismissed == 1
MaxRequests == 1
MaxEvents == 2

Names == {"A", "B"}

Files == 1..MaxFiles
Reloads == 1..MaxReloads

(* An optional field that the file entry does not carry (undefined). *)
Absent == "<absent>"

VARIABLES
    revision,       \* which revision of the label code runs
    workspaceOpen,  \* vscode.workspace.workspaceFolders is defined
    disk,           \* the label files on disk, in locator order
    edits,          \* number of edits the user made to label files
    activation,     \* "inactive" | "active"
    salesforceLabels, \* the Label Store: fullName -> label record
    labelOrder,     \* the property order of the store object (for ... in)
    labelFiles,     \* the label file set exported by the loader
    activeLabelCategories, \* the categories exported by the loader
    reload,         \* the invocations of loadLabelsInWorkspace
    tasks,          \* the withProgress callbacks started by parseLabelFile
    notices,        \* the messages shown to the user
    namespace,      \* salesforce.namespace of package.json ("" when not set)
    wf,             \* the invocation of the createNewLabel command
    editor,         \* the last completion or hover request and its result
    app,            \* the app version feature: the two JSON files, the calls of
                    \* the copiers, the file watcher's handlers and the status bar
    providers       \* the live registrations of the completion and the hover
                    \* provider and the two disposables the loader keeps

vars == <<revision, workspaceOpen, disk, edits, activation, salesforceLabels, labelOrder,
          labelFiles, activeLabelCategories, reload, tasks, notices, namespace, wf, editor,
          app, providers>>

(* The store object: its entries and the order of its property keys. *)
storeVars == <<salesforceLabels, labelOrder>>

(* The variables the loader does not touch, and those the workflow does    *)
(* not touch.                                                              *)
createVars == <<namespace, wf, editor, app, providers>>

(* -------------------------------- texts -------------------------------- *)

UpperCaseLetters == "ABCDEFGHIJKLMNOPQRSTUVWXYZ"
LowerCaseLetters == "abcdefghijklmnopqrstuvwxyz"
WordCharacters == UpperCaseLetters \o LowerCaseLetters \o "0123456789_"

CharAt(s, i) == SubSeq(s, i, i)

(* The first place of character c in s, 0 when it is not there. *)
RECURSIVE IndexFrom(_, _, _)
IndexFrom(s, c, i) ==
    IF i > Len(s) THEN 0
    ELSE IF CharAt(s, i) = c THEN i
    ELSE IndexFrom(s, c, i + 1)

IndexIn(s, c) == IndexFrom(s, c, 1)

CharsOf(s) == {CharAt(s, i) : i \in 1..Len(s)}

(* String.prototype.toLowerCase *)
LowerOf ==
    [c \in CharsOf(UpperCaseLetters) |-> CharAt(LowerCaseLetters, IndexIn(UpperCaseLetters, c))]

ToLowerChar(c) == IF c \in DOMAIN LowerOf THEN LowerOf[c] ELSE c

RECURSIVE ToLowerCase(_)
ToLowerCase(s) ==
    IF Len(s) = 0 THEN "" ELSE ToLowerChar(Head(s)) \o ToLowerCase(Tail(s))

(* String.prototype.endsWith *)
EndsWith(s, suffix) ==
    /\ Len(s) >= Len(suffix)
    /\ SubSeq(s, Len(s) - Len(suffix) + 1, Len(s)) = suffix

(* String.prototype.trim *)
RECURSIVE Trim(_)
Trim(s) ==
    IF Len(s) = 0 THEN ""
    ELSE IF Head(s) = " " THEN Trim(Tail(s))
    ELSE IF CharAt(s, Len(s)) = " " THEN Trim(SubSeq(s, 1, Len(s) - 1))
    ELSE s

(* Array.prototype.join(','), and the text of an array in a template. *)
RECURSIVE JoinWithCommas(_)
JoinWithCommas(segments) ==
    IF Len(segments) = 0 THEN ""
    ELSE IF Len(segments) = 1 THEN segments[1]
    ELSE segments[1] \o "," \o JoinWithCommas(Tail(segments))

(* \w of a regular expression *)
WordCharSet == CharsOf(WordCharacters)

IsWordChar(c) == c \in WordCharSet

(* --------------------------- label records ----------------------------- *)

(* The text of a categories field is kept as the sequence of its           *)
(* comma-separated segments: "A,B" is <<"A", "B">>, the empty text is      *)
(* <<"">>, and a field that is not there is <<>>.                          *)
NoCategories == <<>>

(* One <labels> entry of a label file: the text of its child elements. *)
Entry(n, v) ==
    [fullName |-> n, value |-> v, categories |-> NoCategories, language |-> Absent,
     protected |-> Absent, shortDescription |-> Absent]

(* The value text of the entries of file f: every file declares its labels *)
(* with a text of its own, so that a record tells the file it came from.   *)
ValueIn(f) == "v" \o ToString(f)

FileEntries(f) == {Entry(n, ValueIn(f)) : n \in Names}

RECURSIVE SeqsUpTo(_, _)
SeqsUpTo(S, n) ==
    IF n = 0 THEN {<<>>}
    ELSE LET shorter == SeqsUpTo(S, n - 1)
         IN  shorter \cup {Append(s, x) : s \in {t \in shorter : Len(t) = n - 1}, x \in S}

(* A file is readable and well-formed ("ok"), readable but not well-formed *)
(* XML ("malformed"), or its read fails ("unreadable").                    *)
OkFile(entries) == [kind |-> "ok", entries |-> entries]
Malformed == [kind |-> "malformed", entries |-> <<>>]
Unreadable == [kind |-> "unreadable", entries |-> <<>>]

FileContents(f) ==
    {OkFile(es) : es \in SeqsUpTo(FileEntries(f), MaxLabels)} \cup {Malformed, Unreadable}

(* xml2js (explicitArray) gives every child element as an array of texts:  *)
(* the record keeps the texts and notes that each of them is wrapped.      *)
ParsedLabel(e) ==
    [fullName |-> e.fullName, value |-> e.value, categories |-> e.categories,
     language |-> e.language, protected |-> e.protected,
     shortDescription |-> e.shortDescription, wrapped |-> TRUE]

ParseLabels(entries) == [i \in 1..Len(entries) |-> ParsedLabel(entries[i])]

(* The property key of a label: String(["A"]) = "A". *)
KeyOf(label) == label.fullName

EmptyStore == [n \in {} |-> Entry("A", "v1")]

(* An upsert that drops the other entries. *)
UpsertAlone(store, key, label) == [n \in {key} |-> label]

(* salesforceLabels[key] = label *)
Upsert(store, key, label) ==
    [n \in (DOMAIN store) \cup {key} |-> IF n = key THEN label ELSE store[n]]

(* The property order of the store object after the assignment: a key the  *)
(* object already has keeps its place, a new key goes last.                *)
KeysAfter(order, key) ==
    IF \E i \in 1..Len(order) : order[i] = key THEN order ELSE Append(order, key)

(* --------------------------- initial state ----------------------------- *)

(* No completion or hover request has been made. *)
IdleEditor ==
    [requests |-> 0,
     request |-> "none", text |-> "", character |-> 0, tokenStart |-> 0, tokenEnd |-> 0,
     tokenName |-> "", defined |-> FALSE, items |-> <<>>, hover |-> <<>>,
     threw |-> FALSE, actions |-> <<>>]

(* package.json: its `salesforce` settings (defined is FALSE when the file  *)
(* has none; a flag that is not set is FALSE) and the fields the copiers    *)
(* write.                                                                   *)
Salesforce(defined, name, description, version, link) ==
    [defined |-> defined,
     copyProjectNameToPackageJson |-> name,
     copyProjectDescriptionToPackageJson |-> description,
     copyVersionToPackageJson |-> version,
     setUpInstallationLink |-> link,
     packageVersionUrl |-> Absent]

NoSettings == Salesforce(FALSE, FALSE, FALSE, FALSE, FALSE)

PackageJson(salesforce, name, description, version) ==
    [salesforce |-> salesforce, name |-> name, description |-> description,
     version |-> version]

(* One entry of packageAliases: the alias and the id it names. *)
Alias(alias, id) == [alias |-> alias, id |-> id]

(* sfdx-project.json: the project name, the login URL, the default package *)
(* directory (hasDefault is FALSE when no directory is the default) and    *)
(* packageAliases in the order of its keys.                                *)
SfdxProject(name, hasDefault, versionDescription, versionNumber, packageAliases, sfdcLoginUrl) ==
    [name |-> name, hasDefault |-> hasDefault, versionDescription |-> versionDescription,
     versionNumber |-> versionNumber, packageAliases |-> packageAliases,
     sfdcLoginUrl |-> sfdcLoginUrl]

(* No copier was called yet. *)
NoCall == [fn |-> "none", threw |-> FALSE]

(* The change events of sfdx-project.json, each with its handler. *)
Events == 1..MaxEvents

(* A handler of the file watcher before its event: the objects it parses,  *)
(* the copy steps that failed, whether it wrote package.json, the id of    *)
(* its last status message and the timer it scheduled.                     *)
IdleHandler(packageJson, sfdxProject) ==
    [pc |-> "idle", packageJsonObj |-> packageJson, sfdxProjectJson |-> sfdxProject,
     failed |-> {}, wrote |-> FALSE, updated |-> FALSE, msgId |-> 0, timer |-> "none"]

(* statusBarIdentifier = undefined *)
NoStatusBar == [exists |-> FALSE, text |-> "", shown |-> FALSE]

(* The app version feature before anything happened, over the two files:   *)
(* no copier called, no change event, no status bar widget, lastMessageId  *)
(* = 0 and no id returned yet.                                             *)
AppOver(packageJson, sfdxProject) ==
    [packageJson |-> packageJson, sfdxProject |-> sfdxProject,
     call |-> NoCall, packageJsonObj |-> packageJson,
     watcher |-> "main",
     handlers |-> [h \in Events |-> IdleHandler(packageJson, sfdxProject)],
     statusBarIdentifier |-> NoStatusBar, lastMessageId |-> 0, returned |-> <<>>]

IdleApp ==
    AppOver(PackageJson(NoSettings, "oldName", "oldDescription", "0.0.0"),
            SfdxProject("myProject", TRUE, "My project description", "1.0.0", <<>>, Absent))

(* No provider is registered; both disposables are undefined. *)
NoProviders ==
    [completion |-> 0, hover |-> 0,
     labelCompletionProviderDisposable |-> FALSE,
     labelHoverProviderDisposable |-> FALSE,
     activated |-> FALSE]

IdleReload == [pc |-> "idle", files |-> <<>>, k |-> 0,
               pre |-> EmptyStore, alone |-> FALSE, editsAtStart |-> 0]
NoTask == [st |-> "none", labels |-> <<>>, i |-> 0, cats |-> {}]

Notice(kind, text, f) == [kind |-> kind, text |-> text, file |-> f]

InitCommon ==
    /\ workspaceOpen \in BOOLEAN
    /\ edits = 0
    /\ activation = "inactive"
    /\ salesforceLabels = EmptyStore
    /\ labelOrder = <<>>
    /\ editor = IdleEditor
    /\ labelFiles = <<>>
    /\ activeLabelCategories = {}
    /\ reload = [r \in Reloads |-> IdleReload]
    /\ tasks = [r \in Reloads |-> [f \in Files |-> NoTask]]
    /\ notices = {}
    /\ providers = NoProviders

IdleWorkflow ==
    [pc |-> "idle", provided |-> Absent, labelName |-> Absent, labelValue |-> Absent,
     input |-> Absent, options |-> {}, categories |-> <<"">>, protected |-> Absent, language |-> Absent,
     shortDescription |-> Absent, picked |-> 0, target |-> 0,
     newContent |-> OkFile(<<>>), dismissed |-> {}, outcome |-> "none"]

Init ==
    /\ revision \in {"main", "load"}
    /\ \E n \in 0..MaxFiles :
          disk \in {d \in [1..n -> UNION {FileContents(f) : f \in 1..n}] :
                       \A f \in 1..n : d[f] \in FileContents(f)}
    /\ InitCommon
    /\ namespace = ""
    /\ wf = IdleWorkflow
    /\ app = IdleApp

(* ------------------------------ reload --------------------------------- *)

(* A reload is in progress while its file loop awaits a search or a read,  *)
(* or while one of the progress callbacks it started has not returned.     *)
LoopRunning(r) == reload[r].pc \in {"find", "read"}
TaskRunning(r, f) == tasks[r][f].st \in {"run", "wait"}
InProgress(r) == LoopRunning(r) \/ \E f \in Files : TaskRunning(r, f)
Finished(r) == reload[r].pc = "done" /\ ~InProgress(r)

(* A re-registration that leaves the previous registrations in place. *)
DisposedNever(p) == p

(* if (labelCompletionProviderDisposable) { ...dispose() } and the same    *)
(* for the hover provider: a registration that is held ends.               *)
Disposed(p) ==
    [p EXCEPT !.completion = IF p.labelCompletionProviderDisposable THEN @ - 1 ELSE @,
              !.hover = IF p.labelHoverProviderDisposable THEN @ - 1 ELSE @]

(* registerCompletionItemProvider and registerHoverProvider, their results *)
(* kept in the two disposables.                                            *)
RegisterProviders(p) ==
    [p EXCEPT !.completion = @ + 1, !.hover = @ + 1,
              !.labelCompletionProviderDisposable = TRUE,
              !.labelHoverProviderDisposable = TRUE]

(* loadLabelsInWorkspace, from its call to its first await.  The fields    *)
(* pre, alone and editsAtStart only record what held when it was called.   *)
StartLoad(r, shown) ==
    LET rec == [pc |-> IF workspaceOpen THEN "find" ELSE "done",
                files |-> <<>>, k |-> 0,
                pre |-> salesforceLabels,
                alone |-> \A q \in Reloads : ~InProgress(q),
                editsAtStart |-> edits]
    IN  /\ reload' = [reload EXCEPT ![r] = rec]
        /\ notices' = IF workspaceOpen THEN shown
                      ELSE shown \cup {Notice("warning", "no-workspace", 0)}

(* activate(context): the automatic load when the extension activates.     *)
(* Revision "main" registers the two providers before it loads; the        *)
(* loader of load.ts registers them when its load has returned.            *)
Activate ==
    /\ activation = "inactive"
    /\ activation' = "active"
    /\ IF revision = "main" /\ DOMAIN salesforceLabels # {}
       THEN /\ notices' = notices \cup {Notice("info", "already-loaded", 0)}
            /\ UNCHANGED <<reload, providers>>
       ELSE /\ StartLoad(1, notices)
            /\ providers' = IF revision = "main"
                             THEN [RegisterProviders(providers) EXCEPT !.activated = TRUE]
                             ELSE providers
    /\ UNCHANGED <<namespace, wf, editor, app, revision, workspaceOpen, disk, edits, storeVars,
                   labelFiles, activeLabelCategories, tasks>>

(* The command sf-ext-plus.forceLoadSalesforceLabels: activate(context,    *)
(* true) in revision "main", which disposes of the providers and registers *)
(* them again, and loadLabelsInWorkspace itself in load.ts.                *)
ForceLoad ==
    /\ activation = "active"
    /\ \E r \in Reloads \ {1} :
        /\ reload[r].pc = "idle"
        /\ \A q \in Reloads \ {1} : q < r => reload[q].pc # "idle"
        /\ StartLoad(r, notices)
    /\ providers' = IF revision = "main" THEN RegisterProviders(Disposed(providers))
                     ELSE providers
    /\ UNCHANGED <<namespace, wf, editor, app, revision, workspaceOpen, disk, edits, activation, storeVars,
                   labelFiles, activeLabelCategories, tasks>>

(* The next position of the file loop after file k. *)
Advance(rec) ==
    IF rec.k < Len(rec.files)
    THEN [rec EXCEPT !.k = rec.k + 1]
    ELSE [rec EXCEPT !.pc = "done"]

(* A loop in which a failing file ends the loop. *)
LoopAfterAborting(r, f) ==
    reload' = [reload EXCEPT ![r] =
                  IF disk[f].kind = "ok" THEN Advance(reload[r])
                  ELSE [reload[r] EXCEPT !.pc = "done"]]

(* The try/catch inside the for loop: whatever happened to file f, the     *)
(* loop goes on with the next file.                                        *)
LoopAfter(r, f) == reload' = [reload EXCEPT ![r] = Advance(reload[r])]

(* The label file set is refreshed by every reload's file search. *)
LabelFileSet(located) == located

(* findFiles resolves: the located files, in locator order. *)
FindFilesReturns(r) ==
    /\ reload[r].pc = "find"
    /\ LET located == [i \in 1..Len(disk) |-> i]
       IN  /\ labelFiles' = LabelFileSet(located)
           /\ IF Len(located) = 0
              THEN /\ notices' = notices \cup {Notice("info", "no-label-files", 0)}
                   /\ reload' = [reload EXCEPT ![r].pc = "done"]
              ELSE /\ notices' = notices
                   /\ reload' = [reload EXCEPT ![r].pc = "read", ![r].files = located, ![r].k = 1]
    /\ UNCHANGED <<createVars, revision, workspaceOpen, disk, edits, activation, storeVars,
                   activeLabelCategories, tasks>>

(* The progress callback of parseLabelFile, from its start to its first    *)
(* await: the reset of revision "main", then the first label.              *)
BatchStart(store, labels) ==
    LET base == IF revision = "main" THEN EmptyStore ELSE store
    IN  IF Len(labels) = 0 THEN base
        ELSE Upsert(base, KeyOf(labels[1]), labels[1])

BatchStartKeys(order, labels) ==
    LET base == IF revision = "main" THEN <<>> ELSE order
    IN  IF Len(labels) = 0 THEN base
        ELSE KeysAfter(base, KeyOf(labels[1]))

(* The categories of one parsed label: label.categories[0] split on       *)
(* commas.                                                                 *)
LoadedCategories(label) ==
    {Trim(label.categories[i]) : i \in 1..Len(label.categories)}

(* activeLabelCategories = Array.from(new Set(categories)), which only the *)
(* loader of load.ts has.                                                  *)
BatchCategories(old, cats) == IF revision = "main" THEN old ELSE cats

(* readFile of the current file resolves or rejects; parseLabelFile runs. *)
ReadFileReturns(r) ==
    /\ reload[r].pc = "read"
    /\ LET f == reload[r].files[reload[r].k]
           labels == ParseLabels(disk[f].entries)
       IN  CASE disk[f].kind = "unreadable" ->
                  /\ notices' = notices \cup {Notice("warning", "read-failed", f)}
                  /\ UNCHANGED <<storeVars, tasks, activeLabelCategories>>
             [] disk[f].kind = "malformed" ->
                  /\ notices' = notices \cup {Notice("error", "parse-failed", f)}
                  /\ UNCHANGED <<storeVars, tasks, activeLabelCategories>>
             [] OTHER ->
                  /\ salesforceLabels' = BatchStart(salesforceLabels, labels)
                  /\ labelOrder' = BatchStartKeys(labelOrder, labels)
                  /\ LET cats == IF Len(labels) = 0 THEN {} ELSE LoadedCategories(labels[1])
                     IN  /\ tasks' = [tasks EXCEPT ![r][f] =
                               [st |-> IF Len(labels) > 1 THEN "run" ELSE "wait",
                                labels |-> labels,
                                i |-> IF Len(labels) = 0 THEN 0 ELSE 1,
                                cats |-> cats]]
                         /\ activeLabelCategories' =
                               IF Len(labels) > 1 THEN activeLabelCategories
                               ELSE BatchCategories(activeLabelCategories, cats)
                  /\ notices' = IF Len(labels) = 0
                                THEN notices \cup {Notice("info", "no-labels", f)}
                                ELSE notices
    /\ LoopAfter(r, reload[r].files[reload[r].k])
    /\ UNCHANGED <<createVars, revision, workspaceOpen, disk, edits, activation, labelFiles>>

(* The 1 ms timer between two labels fires: the next label is stored. *)
TimerFires(r, f) ==
    /\ tasks[r][f].st = "run"
    /\ LET t == tasks[r][f]
           label == t.labels[t.i + 1]
           cats == t.cats \cup LoadedCategories(label)
       IN  /\ salesforceLabels' = Upsert(salesforceLabels, KeyOf(label), label)
           /\ labelOrder' = KeysAfter(labelOrder, KeyOf(label))
           /\ tasks' = [tasks EXCEPT ![r][f].i = t.i + 1,
                                     ![r][f].cats = cats,
                                     ![r][f].st = IF t.i + 1 < Len(t.labels) THEN "run" ELSE "wait"]
           /\ activeLabelCategories' =
                 IF t.i + 1 < Len(t.labels) THEN activeLabelCategories
                 ELSE BatchCategories(activeLabelCategories, cats)
    /\ UNCHANGED <<createVars, revision, workspaceOpen, disk, edits, activation, labelFiles,
                   reload, notices>>

(* The closing delay of the progress notification ends. *)
ProgressEnds(r, f) ==
    /\ tasks[r][f].st = "wait"
    /\ tasks' = [tasks EXCEPT ![r][f].st = "done"]
    /\ notices' = notices \cup {Notice("info", "parsed", f)}
    /\ UNCHANGED <<createVars, revision, workspaceOpen, disk, edits, activation, storeVars,
                   labelFiles, activeLabelCategories, reload>>

(* The user deletes one label entry from a label file. *)
RemoveAt(s, i) == [j \in 1..(Len(s) - 1) |-> IF j < i THEN s[j] ELSE s[j + 1]]

RemoveLabel ==
    /\ edits < MaxEdits
    /\ \E f \in DOMAIN disk :
        /\ disk[f].kind = "ok"
        /\ \E i \in 1..Len(disk[f].entries) :
              disk' = [disk EXCEPT ![f].entries = RemoveAt(disk[f].entries, i)]
    /\ edits' = edits + 1
    /\ UNCHANGED <<createVars, revision, workspaceOpen, activation, storeVars, labelFiles,
                   activeLabelCategories, reload, tasks, notices>>

FindFiles == \E r \in Reloads : FindFilesReturns(r)
ReadFile == \E r \in Reloads : ReadFileReturns(r)
Timer == \E r \in Reloads, f \in Files : TimerFires(r, f)
Progress == \E r \in Reloads, f \in Files : ProgressEnds(r, f)

Next ==
    \/ Activate
    \/ ForceLoad
    \/ FindFiles
    \/ ReadFile
    \/ Timer
    \/ Progress
    \/ RemoveLabel

Spec == Init /\ [][Next]_vars

(* ------------------------ creation workflow -------------------------- *)

(* A prompt the user dismissed resolves to undefined. *)
Dismissed == "<dismissed>"
Yes == "Yes"
No == "No"
DefaultLanguage == "en_US"

(* What the user may type or pick. *)
CreateNames == {"A"}
TypedValues == {"Hello"}
ProvidedValues == {"Sel"}
TypedCategories == {<<"C">>}
TypedLanguages == {"pt_BR"}
TypedDescriptions == {"Desc"}

(* `${namespace}_${labelName}` *)
WithNamespace(ns, n) == ns \o "_" \o n

(* return, or an exception that leaves the command handler. *)
Ended(w, outcome) == [w EXCEPT !.pc = "done", !.outcome = outcome]
Dismiss(w, prompt) == [w EXCEPT !.dismissed = w.dismissed \cup {prompt}]

(* The user dismisses at most MaxDismissed prompts of one invocation. *)
CanDismiss == Cardinality(wf.dismissed) < MaxDismissed
OrDismissed(answers) == answers \cup (IF CanDismiss THEN {Dismissed} ELSE {})

(* The categories a record of the store contributes to the suggestions:    *)
(* the trimmed segments of label.categories[0], which for a parsed record  *)
(* is the whole text and for a record built by the workflow the first      *)
(* character of the text (a lone comma splits into two empty segments).    *)
CategoriesOf(label) ==
    IF label.categories = NoCategories \/ label.categories = <<"">> THEN {}
    ELSE IF label.wrapped
         THEN {Trim(label.categories[i]) : i \in 1..Len(label.categories)}
         ELSE LET first == Head(JoinWithCommas(label.categories))
              IN  IF first = "," THEN {""} ELSE {Trim(first)}

ActiveLabelCategories(store) == UNION {CategoriesOf(store[n]) : n \in DOMAIN store}

RECURSIVE SetToSeq(_)
SetToSeq(S) ==
    IF S = {} THEN <<>>
    ELSE LET x == CHOOSE y \in S : TRUE IN <<x>> \o SetToSeq(S \ {x})

(* The record and the file entry of the new label. *)
NewLabel(w) ==
    [fullName |-> w.labelName, value |-> w.labelValue, categories |-> w.categories,
     language |-> w.language, protected |-> w.protected,
     shortDescription |-> w.shortDescription, wrapped |-> FALSE]

NewEntry(w) ==
    [fullName |-> w.labelName, value |-> w.labelValue, categories |-> w.categories,
     language |-> w.language, protected |-> w.protected,
     shortDescription |-> IF revision = "load" THEN w.labelName ELSE w.shortDescription]

(* labelFileString.replace(/<\/labels>/, ...): the new entry follows the   *)
(* first closing labels tag; a text without one is left as it is.          *)
InsertEntry(content, e) ==
    IF content.kind = "ok" /\ Len(content.entries) > 0
    THEN OkFile(<<content.entries[1], e>> \o Tail(content.entries))
    ELSE content

(* A write that replaces every label file. *)
WriteEveryFile(d, f, content) == [g \in DOMAIN d |-> content]

(* vscode.workspace.fs.writeFile(labelFileUri, ...) *)
WriteFile(d, f, content) == [d EXCEPT ![f] = content]

(* A check that never finds the label file set empty. *)
NoLabelFilesNever(files) == Len(files) < 0

(* labelFiles.length === 0 *)
NoLabelFiles(files) == Len(files) = 0

loaderVars == <<revision, workspaceOpen, edits, activation, labelFiles,
                activeLabelCategories, tasks, namespace, editor, app, providers>>

(* The command sf-ext-plus.createNewLabel is invoked: the name prompt.     *)
(* A provided value is first copied to the local labelValue, which the     *)
(* result of the value prompt replaces before anything reads it.           *)
CreateNewLabel ==
    /\ activation = "active"
    /\ wf.pc = "idle"
    /\ \E provided \in {Absent} \cup (IF revision = "store" THEN ProvidedValues ELSE {}) :
          wf' = [wf EXCEPT !.pc = "name", !.provided = provided]
    /\ UNCHANGED <<loaderVars, disk, storeVars, reload, notices>>

NameAnswered ==
    /\ wf.pc = "name"
    /\ \E a \in OrDismissed(CreateNames) :
          wf' = IF a = Dismissed
                THEN Ended(Dismiss(wf, "name"), "cancelled")
                ELSE [wf EXCEPT !.labelName = a, !.pc = "pkg"]
    /\ UNCHANGED <<loaderVars, disk, storeVars, reload, notices>>

(* The read of package.json resolves (it rejects when no folder is open). *)
PackageJsonRead ==
    /\ wf.pc = "pkg"
    /\ wf' = IF ~workspaceOpen THEN Ended(wf, "failed")
             ELSE [wf EXCEPT !.pc = IF namespace # "" THEN "namespace" ELSE "value"]
    /\ UNCHANGED <<loaderVars, disk, storeVars, reload, notices>>

NamespaceAnswered ==
    /\ wf.pc = "namespace"
    /\ \E a \in OrDismissed({Yes, No}) :
          wf' = [(IF a = Dismissed THEN Dismiss(wf, "namespace") ELSE wf) EXCEPT
                    !.labelName = IF a = Yes THEN WithNamespace(namespace, wf.labelName)
                                  ELSE wf.labelName,
                    !.pc = "value"]
    /\ UNCHANGED <<loaderVars, disk, storeVars, reload, notices>>

(* value: providedLabelValue || '': the text the value prompt opens with.  *)
ValuePromptValue(provided) == IF provided = Absent THEN "" ELSE provided

(* A workflow that takes the provided value whatever the prompt returned. *)
LabelValueProvided(provided, inputLabelValue) ==
    IF provided = Absent THEN inputLabelValue ELSE provided

(* labelValue = inputLabelValue *)
LabelValue(provided, inputLabelValue) == inputLabelValue

(* The value prompt is shown, with the provided value in it when there is  *)
(* one; the user accepts the text it opens with, types another or          *)
(* dismisses it; an empty text is `!inputLabelValue`, as a dismissal is.   *)
ValueAnswered ==
    /\ wf.pc = "value"
    /\ \E a \in OrDismissed(TypedValues \cup ({ValuePromptValue(wf.provided)} \ {""})) :
          wf' = IF a = Dismissed
                THEN Ended(Dismiss(wf, "value"), "cancelled")
                ELSE [wf EXCEPT !.input = a,
                                !.labelValue = LabelValue(wf.provided, a),
                                !.options = IF revision = "store"
                                            THEN ActiveLabelCategories(salesforceLabels)
                                            ELSE activeLabelCategories,
                                !.pc = "cats"]
    /\ UNCHANGED <<loaderVars, disk, storeVars, reload, notices>>

CategoriesPicked ==
    /\ wf.pc = "cats"
    /\ \/ /\ CanDismiss
          /\ wf' = [Dismiss(wf, "categories") EXCEPT !.pc = "catInput"]
       \/ \E picked \in SUBSET wf.options :
             wf' = [wf EXCEPT !.categories = IF picked = {} THEN <<"">> ELSE SetToSeq(picked),
                              !.pc = "catInput"]
    /\ UNCHANGED <<loaderVars, disk, storeVars, reload, notices>>

CategoryTyped ==
    /\ wf.pc = "catInput"
    /\ \/ /\ CanDismiss
          /\ wf' = [Dismiss(wf, "categoryInput") EXCEPT !.pc = "protected"]
       \/ \E a \in TypedCategories :
             wf' = [wf EXCEPT !.categories = wf.categories \o a, !.pc = "protected"]
    /\ UNCHANGED <<loaderVars, disk, storeVars, reload, notices>>

ProtectedAnswered ==
    /\ wf.pc = "protected"
    /\ \E a \in OrDismissed({Yes, No}) :
          wf' = IF a = Dismissed /\ revision = "store"
                THEN Ended(Dismiss(wf, "protected"), "cancelled")
                ELSE [(IF a = Dismissed THEN Dismiss(wf, "protected") ELSE wf) EXCEPT
                         !.protected = IF a = Yes THEN "true" ELSE "false",
                         !.pc = "language"]
    /\ UNCHANGED <<loaderVars, disk, storeVars, reload, notices>>

LanguageAnswered ==
    /\ wf.pc = "language"
    /\ \E a \in OrDismissed(TypedLanguages) :
          wf' = [(IF a = Dismissed THEN Dismiss(wf, "language") ELSE wf) EXCEPT
                    !.language = IF a = Dismissed THEN DefaultLanguage ELSE a,
                    !.pc = "desc"]
    /\ UNCHANGED <<loaderVars, disk, storeVars, reload, notices>>

(* The short description is answered, the record is built and the target   *)
(* file is determined from the label file set.                             *)
DescriptionAnswered ==
    /\ wf.pc = "desc"
    /\ \E a \in OrDismissed(TypedDescriptions) :
        LET w == [(IF a = Dismissed THEN Dismiss(wf, "shortDescription") ELSE wf) EXCEPT
                     !.shortDescription =
                         IF a # Dismissed THEN a
                         ELSE IF revision = "load" THEN wf.labelValue ELSE wf.labelName]
        IN  IF NoLabelFiles(labelFiles)
            THEN /\ notices' = notices \cup {Notice("error", "labels-not-found", 0)}
                 /\ wf' = Ended(w, "no-files")
            ELSE IF Len(labelFiles) > 1
            THEN /\ notices' = notices
                 /\ wf' = [w EXCEPT !.pc = "file"]
            ELSE IF Len(labelFiles) = 1
            THEN /\ notices' = notices
                 /\ wf' = [w EXCEPT !.target = labelFiles[1], !.pc = "read"]
            ELSE /\ notices' = notices \cup
                        {Notice(IF revision = "load" THEN "error" ELSE "info", "no-file-selected", 0)}
                 /\ wf' = Ended(w, "no-file-selected")
    /\ UNCHANGED <<loaderVars, disk, storeVars, reload>>

FilePicked ==
    /\ wf.pc = "file"
    /\ \E a \in (IF CanDismiss THEN {0} ELSE {}) \cup {labelFiles[i] : i \in 1..Len(labelFiles)} :
          IF a = 0
          THEN /\ notices' = notices \cup
                      {Notice(IF revision = "load" THEN "error" ELSE "info", "no-file-selected", 0)}
               /\ wf' = Ended(Dismiss(wf, "file"), "no-file-selected")
          ELSE /\ notices' = notices
               /\ wf' = [wf EXCEPT !.picked = a, !.target = a, !.pc = "read"]
    /\ UNCHANGED <<loaderVars, disk, storeVars, reload>>

(* The read of the target file resolves or rejects. *)
TargetRead ==
    /\ wf.pc = "read"
    /\ wf' = IF disk[wf.target].kind = "unreadable"
             THEN Ended(wf, "failed")
             ELSE [wf EXCEPT !.newContent = InsertEntry(disk[wf.target], NewEntry(wf)),
                             !.pc = "write"]
    /\ UNCHANGED <<loaderVars, disk, storeVars, reload, notices>>

(* The write resolves: the success message and the upsert; revision        *)
(* "store" then calls activate(context, true) and awaits it.               *)
TargetWritten ==
    /\ wf.pc = "write"
    /\ disk' = WriteFile(disk, wf.target, wf.newContent)
    /\ notices' = notices \cup {Notice("info", "created", wf.target)}
    /\ salesforceLabels' = Upsert(salesforceLabels, wf.labelName, NewLabel(wf))
    /\ labelOrder' = KeysAfter(labelOrder, wf.labelName)
    /\ wf' = IF revision = "store"
             THEN [wf EXCEPT !.pc = "activate", !.outcome = "created"]
             ELSE Ended(wf, "created")
    /\ UNCHANGED <<loaderVars, reload>>

(* activate(context, true) returns: the completion and the hover provider  *)
(* have been registered again; the store is as the upsert left it.         *)
Reactivated ==
    /\ wf.pc = "activate"
    /\ wf' = [wf EXCEPT !.pc = "done"]
    /\ providers' = RegisterProviders(Disposed(providers))
    /\ UNCHANGED <<revision, workspaceOpen, edits, activation, labelFiles,
                   activeLabelCategories, tasks, namespace, editor, app,
                   disk, storeVars, reload, notices>>

NextCreate ==
    \/ Activate
    \/ FindFiles
    \/ ReadFile
    \/ Timer
    \/ Progress
    \/ CreateNewLabel
    \/ NameAnswered
    \/ PackageJsonRead
    \/ NamespaceAnswered
    \/ ValueAnswered
    \/ CategoriesPicked
    \/ CategoryTyped
    \/ ProtectedAnswered
    \/ LanguageAnswered
    \/ DescriptionAnswered
    \/ FilePicked
    \/ TargetRead
    \/ TargetWritten
    \/ Reactivated

(* The label files the workflow runs on; one of them has an entry without  *)
(* a value element.                                                        *)
CreateContents(f) ==
    {OkFile(es) : es \in {<<>>, <<Entry("A", ValueIn(f))>>,
                          <<Entry("A", ValueIn(f)), Entry("B", ValueIn(f))>>,
                          <<Entry("B", Absent)>>}}
        \cup {Unreadable}

InitCreate ==
    /\ revision \in {"load", "store"}
    /\ \E n \in 0..MaxFiles :
          disk \in {d \in [1..n -> UNION {CreateContents(f) : f \in 1..n}] :
                       \A f \in 1..n : d[f] \in CreateContents(f)}
    /\ InitCommon
    /\ namespace \in {"", "ns"}
    /\ wf = IdleWorkflow
    /\ app = IdleApp

SpecCreate == InitCreate /\ [][NextCreate]_vars

(* ------------------- completion and hover providers ------------------ *)

(* A trigger test that tells the letter cases apart. *)
TriggeredInLowerCaseOnly(linePrefix) == EndsWith(linePrefix, "label.")

(* linePrefix.toLowerCase().endsWith('label.') *)
Triggered(linePrefix) == EndsWith(ToLowerCase(linePrefix), "label.")

(* label.value[0] raises a TypeError when the record has no value. *)
Throws(label) == label.value = Absent

(* x[0]: the text inside the array of a parsed record, the first character *)
(* of the text of a record built by the workflow.                          *)
FirstOf(label, text) == IF label.wrapped THEN text ELSE Head(text)

(* item.detail = label.value[0] *)
Detail(label) == FirstOf(label, label.value)

(* label.shortDescription && label.shortDescription[0] *)
Documentation(label) ==
    IF label.shortDescription \in {Absent, ""} THEN Absent
    ELSE FirstOf(label, label.shortDescription)

CompletionItem(name, label) ==
    [label |-> name, detail |-> Detail(label), documentation |-> Documentation(label)]

(* for (const labelName in salesforceLabels) { try {...} catch { break } } *)
RECURSIVE CompletionItems(_, _)
CompletionItems(store, keys) ==
    IF Len(keys) = 0 THEN <<>>
    ELSE IF Throws(store[Head(keys)]) THEN <<>>
    ELSE <<CompletionItem(Head(keys), store[Head(keys)])>>
            \o CompletionItems(store, Tail(keys))

(* /(?:label|system\.label)\.(\w+)/gi tried at index i (from 1) of s: the   *)
(* index of the last character of the match, 0 when there is none.         *)
StartsWithAt(s, i, t) ==
    /\ i + Len(t) - 1 <= Len(s)
    /\ \A k \in 1..Len(t) : ToLowerChar(CharAt(s, i + k - 1)) = CharAt(t, k)

QualifierAt(s, i) ==
    IF StartsWithAt(s, i, "label.") THEN Len("label.")
    ELSE IF StartsWithAt(s, i, "system.label.") THEN Len("system.label.")
    ELSE 0

RECURSIVE WordEnd(_, _)
WordEnd(s, i) ==
    IF i <= Len(s) /\ IsWordChar(CharAt(s, i)) THEN WordEnd(s, i + 1) ELSE i - 1

MatchEndAfter(s, i, q) ==
    IF q = 0 THEN 0
    ELSE IF i + q <= Len(s) /\ IsWordChar(CharAt(s, i + q)) THEN WordEnd(s, i + q)
    ELSE 0

MatchEnd(s, i) == MatchEndAfter(s, i, QualifierAt(s, i))

NoMatch == [found |-> FALSE, start |-> 0, end |-> 0]

(* document.getWordRangeAtPosition(position, regexp): the matches of the   *)
(* line are tried from the left, and the first one with                    *)
(* match.index <= position.character <= lastIndex is the range.            *)
RECURSIVE WordRangeAtPosition(_, _, _)
WordRangeAtPosition(s, from, character) ==
    IF from > Len(s) THEN NoMatch
    ELSE IF QualifierAt(s, from) = 0 THEN WordRangeAtPosition(s, from + 1, character)
    ELSE IF MatchEnd(s, from) = 0 THEN WordRangeAtPosition(s, from + 1, character)
    ELSE IF from - 1 <= character /\ MatchEnd(s, from) >= character
         THEN [found |-> TRUE, start |-> from - 1, end |-> MatchEnd(s, from)]
         ELSE WordRangeAtPosition(s, MatchEnd(s, from) + 1, character)

(* text.replaceAll(/(?:label|system\.label)\./gi, '') *)
RECURSIVE StripQualifiers(_)
StripQualifiers(t) ==
    IF Len(t) = 0 THEN ""
    ELSE IF QualifierAt(t, 1) > 0
         THEN StripQualifiers(SubSeq(t, QualifierAt(t, 1) + 1, Len(t)))
         ELSE Head(t) \o StripQualifiers(Tail(t))

(* The truth value of a field of a record: an array is true whatever it    *)
(* holds; a text is true when not empty; a boolean is its value.           *)
HasText(label, text) ==
    IF label.wrapped THEN text # Absent ELSE text \notin {Absent, ""}

HasCategories(label) ==
    IF label.wrapped THEN label.categories # NoCategories
    ELSE label.categories \notin {NoCategories, <<"">>}

HasProtected(label) ==
    IF label.wrapped THEN label.protected # Absent ELSE label.protected = "true"

(* `${x}` *)
Rendered(text) == IF text = Absent THEN "undefined" ELSE text

HoverLine(caption, text) == [caption |-> caption, text |-> text]

(* The lines appended to the hover content, in order. *)
HoverContent(labelName, label) ==
    <<HoverLine("Label Name", labelName), HoverLine("Value", Rendered(label.value))>>
    \o (IF HasCategories(label)
        THEN <<HoverLine("Category", JoinWithCommas(label.categories))>> ELSE <<>>)
    \o (IF HasText(label, label.shortDescription)
        THEN <<HoverLine("Short Description", label.shortDescription)>> ELSE <<>>)
    \o (IF HasProtected(label)
        THEN <<HoverLine("Protected", IF HasProtected(label) THEN "Yes" ELSE "No")>>
        ELSE <<>>)
    \o (IF HasText(label, label.language)
        THEN <<HoverLine("Language", label.language)>> ELSE <<>>)

(* provideHover: the lines of the hover, none when there is no hover. *)
Hover(store, text, character) ==
    LET range == WordRangeAtPosition(text, 1, character)
        labelName == StripQualifiers(SubSeq(text, range.start + 1, range.end))
    IN  IF ~range.found THEN <<>>
        ELSE IF labelName \notin DOMAIN store THEN <<>>
        ELSE HoverContent(labelName, store[labelName])

(* The line prefixes completion is asked for, and the lines hovered over   *)
(* with the token they hold: it takes the characters tokenStart to         *)
(* tokenEnd - 1, counted from 0, and names the label tokenName.            *)
LinePrefixes == {"Label.", "LABEL.", "foo.Label.", "Labelx.", "Label", "x = label.", ""}

Line(text, tokenStart, tokenEnd, tokenName) ==
    [text |-> text, tokenStart |-> tokenStart, tokenEnd |-> tokenEnd, tokenName |-> tokenName]

Lines ==
    {Line("(Label.My_Label)", 1, 15, "My_Label"),
     Line("(system.LABEL.My_Label)", 1, 22, "My_Label"),
     Line(" Label.Zed;", 1, 10, "Zed"),
     Line(" label.A;", 1, 8, "A"),
     Line(" Label.B;", 1, 8, "B")}

(* A completion request in an Apex document. *)
ProvideCompletionItems ==
    /\ activation = "active"
    /\ editor.requests < MaxRequests
    /\ \E linePrefix \in LinePrefixes :
          editor' = [IdleEditor EXCEPT
                        !.requests = editor.requests + 1,
                        !.request = "completion",
                        !.text = linePrefix,
                        !.character = Len(linePrefix),
                        !.defined = Triggered(linePrefix),
                        !.items = IF Triggered(linePrefix)
                                  THEN CompletionItems(salesforceLabels, labelOrder)
                                  ELSE <<>>]
    /\ UNCHANGED <<revision, workspaceOpen, disk, edits, activation, storeVars, labelFiles,
                   activeLabelCategories, reload, tasks, notices, namespace, wf, app, providers>>

(* The user hovers over a character of a line of an Apex document. *)
ProvideHover ==
    /\ activation = "active"
    /\ editor.requests < MaxRequests
    /\ \E line \in Lines : \E character \in 0..(Len(line.text) - 1) :
          LET hover == Hover(salesforceLabels, line.text, character)
          IN  editor' = [IdleEditor EXCEPT
                            !.requests = editor.requests + 1,
                            !.request = "hover",
                            !.text = line.text,
                            !.character = character,
                            !.tokenStart = line.tokenStart,
                            !.tokenEnd = line.tokenEnd,
                            !.tokenName = line.tokenName,
                            !.defined = Len(hover) > 0,
                            !.hover = hover]
    /\ UNCHANGED <<revision, workspaceOpen, disk, edits, activation, storeVars, labelFiles,
                   activeLabelCategories, reload, tasks, notices, namespace, wf, app, providers>>

(* proposedLabelValue.startsWith('\'') && proposedLabelValue.endsWith('\'')  *)
(* and slice(1, -1): the text between the first and the last character.    *)
Quoted(text) ==
    Len(text) > 0 /\ CharAt(text, 1) = "'" /\ CharAt(text, Len(text)) = "'"

Slice1(text) == IF Len(text) < 3 THEN "" ELSE SubSeq(text, 2, Len(text) - 1)

ProposedLabelValue(selected) == IF Quoted(selected) THEN Slice1(selected) ELSE selected

(* String.prototype.includes *)
Includes(text, part) ==
    \E i \in 1..(Len(text) - Len(part) + 1) : SubSeq(text, i, i + Len(part) - 1) = part

(* Object.values(salesforceLabels).find(label => label.value[0] === p):    *)
(* the name of the first record in property order whose value[0] is the    *)
(* text, Absent when there is none; a record without value met on the way  *)
(* throws.                                                                 *)
RECURSIVE ExistingLabel(_, _, _)
ExistingLabel(store, keys, proposed) ==
    IF Len(keys) = 0 THEN Absent
    ELSE IF Throws(store[Head(keys)]) THEN "<throws>"
    ELSE IF Detail(store[Head(keys)]) = proposed THEN Head(keys)
    ELSE ExistingLabel(store, Tail(keys), proposed)

(* Object.values(salesforceLabels).filter(label =>                         *)
(*   label.value[0].includes(p) && (existing ? label.value[0] !==          *)
(*   existing.value[0] : true)): the names kept, in property order.        *)
RECURSIVE SimilarLabels(_, _, _, _)
SimilarLabels(store, keys, proposed, existing) ==
    IF Len(keys) = 0 THEN <<>>
    ELSE LET label == store[Head(keys)]
             rest == SimilarLabels(store, Tail(keys), proposed, existing)
         IN  IF /\ Includes(Detail(label), proposed)
                /\ existing # Absent => Detail(label) # Detail(store[existing])
             THEN <<Head(keys)>> \o rest
             ELSE rest

CodeAction(kind, fullName, argument) ==
    [kind |-> kind, fullName |-> fullName, argument |-> argument]

(* provideCodeActions: the outcome ("none" for a return without a list,    *)
(* "threw" for a TypeError, "list") and the actions of the list.           *)
CodeActions(store, keys, selected) ==
    LET proposed == ProposedLabelValue(selected)
        existing == ExistingLabel(store, keys, proposed)
    IN  IF selected = "" THEN [outcome |-> "none", actions |-> <<>>]
        ELSE IF proposed \in DOMAIN store THEN [outcome |-> "none", actions |-> <<>>]
        ELSE IF existing = "<throws>" \/ \E n \in DOMAIN store : Throws(store[n])
        THEN [outcome |-> "threw", actions |-> <<>>]
        ELSE LET similar == SimilarLabels(store, keys, proposed, existing)
             IN  [outcome |-> "list",
                  actions |->
                     (IF existing = Absent THEN <<>>
                      ELSE <<CodeAction("useExisting", existing, Absent)>>)
                     \o [i \in 1..Len(similar) |-> CodeAction("useSimilar", similar[i], Absent)]
                     \o <<CodeAction("create", Absent, proposed)>>]

(* The texts the user selects in an Apex document. *)
SelectedTexts == {"Hello World", "'Hello World'", "Hello", "'v1'", "My_Label", "World"}

(* The editor asks for the quick fixes of a selection (the provider exists *)
(* in the revision that has the store accessor).                           *)
ProvideCodeActions ==
    /\ activation = "active"
    /\ revision = "store"
    /\ editor.requests < MaxRequests
    /\ \E selected \in SelectedTexts :
          LET result == CodeActions(salesforceLabels, labelOrder, selected)
          IN  editor' = [IdleEditor EXCEPT
                            !.requests = editor.requests + 1,
                            !.request = "codeActions",
                            !.text = selected,
                            !.defined = result.outcome = "list",
                            !.threw = result.outcome = "threw",
                            !.actions = result.actions]
    /\ UNCHANGED <<revision, workspaceOpen, disk, edits, activation, storeVars, labelFiles,
                   activeLabelCategories, reload, tasks, notices, namespace, wf, app, providers>>

(* An editing session on a loaded store: the activation reload has         *)
(* loaded one label file, the creation workflow may have added a label,    *)
(* and the user asks for completions and hovers and starts the workflow.   *)
EditorEntries ==
    {[fullName |-> "My_Label", value |-> "Hello World", categories |-> <<"A", " B">>,
      language |-> "en_US", protected |-> "false", shortDescription |-> "Greeting"],
     [fullName |-> "B", value |-> "v1", categories |-> <<"B", "C">>,
      language |-> Absent, protected |-> "true", shortDescription |-> Absent],
     Entry("A", Absent)}

(* Invocations of the workflow that created label A. *)
CreatedRun(categories, protected) ==
    [IdleWorkflow EXCEPT !.pc = "done", !.outcome = "created", !.target = 1,
                         !.labelName = "A", !.input = "Hello", !.labelValue = "Hello",
                         !.categories = categories, !.protected = protected,
                         !.language = DefaultLanguage, !.shortDescription = "Desc"]

CreatedRuns == {CreatedRun(<<"", "C">>, "false"), CreatedRun(<<"A", "B">>, "true")}

(* The store and its property order after the records were assigned in    *)
(* the order given.                                                        *)
RECURSIVE StoreOf(_)
StoreOf(labels) ==
    IF Len(labels) = 0 THEN EmptyStore
    ELSE LET last == labels[Len(labels)]
         IN  Upsert(StoreOf(SubSeq(labels, 1, Len(labels) - 1)), KeyOf(last), last)

RECURSIVE KeysOf(_)
KeysOf(labels) ==
    IF Len(labels) = 0 THEN <<>>
    ELSE KeysAfter(KeysOf(SubSeq(labels, 1, Len(labels) - 1)), KeyOf(labels[Len(labels)]))

InitEditor ==
    /\ revision \in {"load", "store"}
    /\ workspaceOpen = TRUE
    /\ edits = 0
    /\ activation = "active"
    /\ namespace = ""
    /\ wf = IdleWorkflow
    /\ editor = IdleEditor
    /\ app = IdleApp
    /\ providers = [RegisterProviders(NoProviders) EXCEPT !.activated = TRUE]
    /\ labelFiles = <<1>>
    /\ \E es \in SeqsUpTo(EditorEntries, MaxLabels) :
       \E created \in {<<>>} \cup {<<w>> : w \in CreatedRuns} :
          LET loaded == ParseLabels(es)
              all == loaded \o [i \in 1..Len(created) |-> NewLabel(created[i])]
              cats == UNION {LoadedCategories(loaded[i]) : i \in 1..Len(loaded)}
          IN  /\ disk = <<IF Len(created) = 0 THEN OkFile(es)
                          ELSE InsertEntry(OkFile(es), NewEntry(created[1]))>>
              /\ salesforceLabels = StoreOf(all)
              /\ labelOrder = KeysOf(all)
              /\ activeLabelCategories = BatchCategories({}, cats)
              /\ reload = [r \in Reloads |->
                             IF r = 1
                             THEN [IdleReload EXCEPT !.pc = "done", !.files = <<1>>,
                                                     !.k = 1, !.alone = TRUE]
                             ELSE IdleReload]
              /\ tasks = [r \in Reloads |-> [f \in Files |->
                             IF r = 1 /\ f = 1
                             THEN [st |-> "done", labels |-> loaded, i |-> Len(loaded),
                                   cats |-> cats]
                             ELSE NoTask]]
              /\ notices = {Notice("info", "parsed", 1)}
                              \cup (IF Len(es) = 0 THEN {Notice("info", "no-labels", 1)} ELSE {})
                              \cup (IF Len(created) = 0 THEN {}
                                    ELSE {Notice("info", "created", 1)})

NextEditor ==
    \/ ProvideCompletionItems
    \/ ProvideHover
    \/ ProvideCodeActions
    \/ CreateNewLabel
    \/ NameAnswered
    \/ PackageJsonRead
    \/ ValueAnswered

SpecEditor == InitEditor /\ [][NextEditor]_vars

(* ----------------------------- deactivation ---------------------------- *)

(* deactivate(): the module variable is bound to a new empty object (and   *)
(* the categories to a new empty array where the loader keeps them).  The  *)
(* commands were disposed with the extension's subscriptions; the awaits   *)
(* and timers of a reload that was started before go on.                   *)
Deactivate ==
    /\ activation = "active"
    /\ activation' = "deactivated"
    /\ salesforceLabels' = EmptyStore
    /\ labelOrder' = <<>>
    /\ activeLabelCategories' = IF revision = "main" THEN activeLabelCategories ELSE {}
    /\ UNCHANGED <<createVars, revision, workspaceOpen, disk, edits, labelFiles,
                   reload, tasks, notices>>

NextDeactivate ==
    \/ Activate
    \/ FindFiles
    \/ ReadFile
    \/ Timer
    \/ Progress
    \/ Deactivate

SpecDeactivate == Init /\ [][NextDeactivate]_vars

(* ------------------------ provider registrations ----------------------- *)

(* activate of load.ts after `await loadLabelsInWorkspace()`: the previous *)
(* providers are disposed of and the two providers are registered.         *)
ProvidersRegistered ==
    /\ revision # "main"
    /\ activation = "active"
    /\ reload[1].pc = "done"
    /\ ~providers.activated
    /\ providers' = [RegisterProviders(Disposed(providers)) EXCEPT !.activated = TRUE]
    /\ UNCHANGED <<revision, workspaceOpen, disk, edits, activation, storeVars, labelFiles,
                   activeLabelCategories, reload, tasks, notices, namespace, wf, editor, app>>

(* The creation command that registers the providers again is that of     *)
(* revision "store"; in these runs it is invoked without a value and no    *)
(* prompt is dismissed, so that every creation reaches its write.          *)
CreateCommand == revision = "store" /\ CreateNewLabel /\ wf'.provided = Absent

Answered(prompt) == prompt /\ wf'.dismissed = {}

(* The label files of the runs on registrations. *)
ProviderDisks ==
    {<<>>, <<OkFile(<<Entry("A", ValueIn(1))>>)>>,
     <<OkFile(<<Entry("A", ValueIn(1))>>),
       OkFile(<<Entry("A", ValueIn(2)), Entry("B", ValueIn(2))>>)>>}

InitProviders ==
    /\ revision \in {"main", "load", "store"}
    /\ disk \in ProviderDisks
    /\ InitCommon
    /\ namespace \in {"", "ns"}
    /\ wf = IdleWorkflow
    /\ app = IdleApp

NextProviders ==
    \/ Activate
    \/ ForceLoad
    \/ FindFiles
    \/ ReadFile
    \/ Timer
    \/ Progress
    \/ ProvidersRegistered
    \/ CreateCommand
    \/ Answered(NameAnswered)
    \/ PackageJsonRead
    \/ Answered(NamespaceAnswered)
    \/ Answered(ValueAnswered)
    \/ Answered(CategoriesPicked)
    \/ Answered(CategoryTyped)
    \/ Answered(ProtectedAnswered)
    \/ Answered(LanguageAnswered)
    \/ Answered(DescriptionAnswered)
    \/ Answered(FilePicked)
    \/ TargetRead
    \/ TargetWritten
    \/ Reactivated

SpecProviders == InitProviders /\ [][NextProviders]_vars

(* ------------------------- app version copiers ------------------------ *)

(* String.prototype.split on one character, and Array.prototype.join. *)
RECURSIVE Split(_, _)
Split(text, c) ==
    LET i == IndexIn(text, c)
    IN  IF i = 0 THEN <<text>>
        ELSE <<SubSeq(text, 1, i - 1)>> \o Split(SubSeq(text, i + 1, Len(text)), c)

RECURSIVE Join(_, _)
Join(parts, c) ==
    IF Len(parts) = 0 THEN ""
    ELSE IF Len(parts) = 1 THEN parts[1]
    ELSE parts[1] \o c \o Join(Tail(parts), c)

(* Array.prototype.slice(0, 3) *)
Slice03(parts) == SubSeq(parts, 1, IF Len(parts) < 3 THEN Len(parts) ELSE 3)

StartsWith(text, prefix) ==
    Len(text) >= Len(prefix) /\ SubSeq(text, 1, Len(prefix)) = prefix

(* String.prototype.localeCompare on texts of digits and dots: the texts   *)
(* are compared character by character, a dot before every digit and a     *)
(* prefix before the longer text; -1, 0 or 1.                              *)
CollationOrder == ".0123456789"

RECURSIVE LocaleCompare(_, _)
LocaleCompare(a, b) ==
    IF Len(a) = 0 /\ Len(b) = 0 THEN 0
    ELSE IF Len(a) = 0 THEN -1
    ELSE IF Len(b) = 0 THEN 1
    ELSE LET x == IndexIn(CollationOrder, Head(a))
             y == IndexIn(CollationOrder, Head(b))
         IN  IF x < y THEN -1
             ELSE IF x > y THEN 1
             ELSE LocaleCompare(Tail(a), Tail(b))

(* What a call of a copier leaves: whether it threw (the promise of the    *)
(* async function is rejected) and the package.json object.                *)
Outcome(threw, packageJsonObj) == [threw |-> threw, packageJsonObj |-> packageJsonObj]

(* copyProjectName(settings, packageJsonObject, sfdxProjectJson) *)
CopyProjectName(settings, packageJsonObject, sfdxProjectJson) ==
    IF ~settings.defined \/ ~settings.copyProjectNameToPackageJson
    THEN Outcome(FALSE, packageJsonObject)
    ELSE IF packageJsonObject.name # sfdxProjectJson.name
    THEN Outcome(FALSE, [packageJsonObject EXCEPT !.name = sfdxProjectJson.name])
    ELSE Outcome(FALSE, packageJsonObject)

(* A description copier that looks at the flag of the name copier. *)
CopyProjectDescriptionOnNameFlag(settings, packageJsonObj, defaultPackageDirectory) ==
    IF ~settings.defined \/ ~settings.copyProjectNameToPackageJson
    THEN Outcome(FALSE, packageJsonObj)
    ELSE Outcome(FALSE, [packageJsonObj EXCEPT
                            !.description = defaultPackageDirectory.versionDescription])

(* copyProjectDescription(settings, packageJsonObj, defaultPackageDirectory) *)
CopyProjectDescription(settings, packageJsonObj, defaultPackageDirectory) ==
    IF ~settings.defined \/ ~settings.copyProjectDescriptionToPackageJson
    THEN Outcome(FALSE, packageJsonObj)
    ELSE IF packageJsonObj.description # defaultPackageDirectory.versionDescription
    THEN Outcome(FALSE, [packageJsonObj EXCEPT
                            !.description = defaultPackageDirectory.versionDescription])
    ELSE Outcome(FALSE, packageJsonObj)

(* copyVersion(settings, packageJsonObj, defaultPackageDirectory) *)
CopyVersion(settings, packageJsonObj, defaultPackageDirectory) ==
    LET versionParts == Split(defaultPackageDirectory.versionNumber, ".")
    IN  IF ~settings.defined \/ ~settings.copyVersionToPackageJson
        THEN Outcome(FALSE, packageJsonObj)
        ELSE IF packageJsonObj.version # defaultPackageDirectory.versionNumber
        THEN IF Len(versionParts) >= 3
             THEN Outcome(FALSE, [packageJsonObj EXCEPT
                                     !.version = Join(Slice03(versionParts), ".")])
             ELSE Outcome(TRUE, packageJsonObj)
        ELSE Outcome(FALSE, packageJsonObj)

(* a.split('@')[1].split('-')[0] *)
VersionOfAlias(alias) == Split(Split(alias, "@")[2], "-")[1]

(* Array.prototype.sort with the comparator of the aliases: a stable sort, *)
(* an alias goes after every alias that does not compare greater.          *)
RECURSIVE InsertAlias(_, _)
InsertAlias(sorted, alias) ==
    IF Len(sorted) = 0 THEN <<alias>>
    ELSE IF LocaleCompare(VersionOfAlias(Head(sorted)), VersionOfAlias(alias)) > 0
    THEN <<alias>> \o sorted
    ELSE <<Head(sorted)>> \o InsertAlias(Tail(sorted), alias)

RECURSIVE SortAliases(_)
SortAliases(aliases) ==
    IF Len(aliases) = 0 THEN <<>>
    ELSE InsertAlias(SortAliases(SubSeq(aliases, 1, Len(aliases) - 1)), aliases[Len(aliases)])

(* Object.keys(packageAliases).filter(alias => alias.startsWith(prefix)) *)
RECURSIVE AliasesWith(_, _)
AliasesWith(packageAliases, prefix) ==
    IF Len(packageAliases) = 0 THEN <<>>
    ELSE (IF StartsWith(Head(packageAliases).alias, prefix)
          THEN <<Head(packageAliases).alias>> ELSE <<>>)
         \o AliasesWith(Tail(packageAliases), prefix)

(* packageAliases[alias] *)
IdOfAlias(packageAliases, alias) ==
    packageAliases[CHOOSE i \in 1..Len(packageAliases) : packageAliases[i].alias = alias].id

DefaultLoginUrl == "https://login.salesforce.com"

(* setUpInstallationLink(settings, sfdxProjectObject, packageJsonObj) *)
SetUpInstallationLink(settings, sfdxProjectObject, packageJsonObj) ==
    IF ~settings.defined \/ ~settings.setUpInstallationLink \/ sfdxProjectObject.name = ""
    THEN Outcome(FALSE, packageJsonObj)
    ELSE IF ~sfdxProjectObject.hasDefault THEN Outcome(TRUE, packageJsonObj)
    ELSE LET defaultAppVersion ==
                 Join(Slice03(Split(sfdxProjectObject.versionNumber, ".")), ".")
             allPackageAliases ==
                 AliasesWith(sfdxProjectObject.packageAliases,
                             sfdxProjectObject.name \o "@" \o defaultAppVersion)
             sortedPackageAliases == SortAliases(allPackageAliases)
             highestVersionAlias == sortedPackageAliases[Len(sortedPackageAliases)]
             orgUrlPrefix == IF sfdxProjectObject.sfdcLoginUrl = Absent
                             THEN DefaultLoginUrl ELSE sfdxProjectObject.sfdcLoginUrl
         IN  IF Len(allPackageAliases) = 0 THEN Outcome(TRUE, packageJsonObj)
             ELSE Outcome(FALSE,
                     [packageJsonObj EXCEPT !.salesforce.packageVersionUrl =
                         orgUrlPrefix \o "/packaging/installPackage.apexp?p0="
                         \o IdOfAlias(sfdxProjectObject.packageAliases, highestVersionAlias)])

(* The inputs of the copiers. *)
SettingsSet ==
    {NoSettings} \cup
    {Salesforce(TRUE, n, d, v, l) : n \in BOOLEAN, d \in BOOLEAN, v \in BOOLEAN, l \in BOOLEAN}

VersionNumbers == {"1.0.0.NEXT", "1.2.0.NEXT", "1.0"}

PackageJsons ==
    {PackageJson(f, n, d, v) :
        f \in SettingsSet, n \in {"oldName", "myProject"},
        d \in {"oldDescription", "My project description"},
        v \in {"0.0.0", "1.0.0.NEXT", "1.0"}}

ThePackage == Alias("myProject", "0Ho000000000000AAA")

TestAliases ==
    <<ThePackage, Alias("myProject@1.1.0-2", "04t000000000002AAA"),
      Alias("myProject@1.2.0-3", "04t000000000003AAA"),
      Alias("myProject@1.0.0-1", "04t000000000001AAA")>>

AliasLists ==
    {<<ThePackage>>,
     TestAliases,
     <<ThePackage, Alias("myProject@1.2.0-2", "04t000000000002AAA"),
       Alias("myProject@1.2.0-3", "04t000000000003AAA")>>,
     <<ThePackage, Alias("myProject@1.2.0-3", "04t000000000003AAA"),
       Alias("myProject@1.2.0-2", "04t000000000002AAA")>>}

SfdxProjects ==
    {SfdxProject("myProject", h, "My project description", v, a, u) :
        h \in BOOLEAN, v \in VersionNumbers, a \in AliasLists,
        u \in {Absent, "https://test.salesforce.com"}}

(* A copier is called with the settings and the objects of the two files,  *)
(* as the tests of the copiers call it.                                    *)
Called(fn, result) ==
    /\ app' = [app EXCEPT !.call = [fn |-> fn, threw |-> result.threw],
                          !.packageJsonObj = result.packageJsonObj]
    /\ UNCHANGED <<revision, workspaceOpen, disk, edits, activation, storeVars, labelFiles,
                   activeLabelCategories, reload, tasks, notices, namespace, wf, editor,
                   providers>>

CopyProjectNameCalled ==
    Called("copyProjectName",
           CopyProjectName(app.packageJson.salesforce, app.packageJson, app.sfdxProject))

CopyProjectDescriptionCalled ==
    Called("copyProjectDescription",
           CopyProjectDescription(app.packageJson.salesforce, app.packageJson, app.sfdxProject))

CopyVersionCalled ==
    Called("copyVersion",
           CopyVersion(app.packageJson.salesforce, app.packageJson, app.sfdxProject))

SetUpInstallationLinkCalled ==
    Called("setUpInstallationLink",
           SetUpInstallationLink(app.packageJson.salesforce, app.sfdxProject, app.packageJson))

InitCopiers ==
    /\ revision = "store"
    /\ disk = <<>>
    /\ InitCommon
    /\ namespace = ""
    /\ wf = IdleWorkflow
    /\ \E p \in PackageJsons, x \in SfdxProjects : app = AppOver(p, x)

NextCopiers ==
    \/ CopyProjectNameCalled
    \/ CopyProjectDescriptionCalled
    \/ CopyVersionCalled
    \/ SetUpInstallationLinkCalled

SpecCopiers == InitCopiers /\ [][NextCopiers]_vars

(* ------------------------- claims on the reload ------------------------ *)

(* The fullNames declared in the label files as they are on disk. *)
DeclaredIn(f) == {disk[f].entries[i].fullName : i \in 1..Len(disk[f].entries)}
DeclaredNames == UNION {DeclaredIn(f) : f \in DOMAIN disk}
AllFilesOk == \A f \in DOMAIN disk : disk[f].kind = "ok"

(* Reload r is the only reload running or run since it was called, and the *)
(* label files have not changed since.                                     *)
Undisturbed(r) ==
    /\ reload[r].pc # "idle"
    /\ reload[r].alone
    /\ reload[r].editsAtStart = edits
    /\ \A q \in Reloads : q > r => reload[q].pc = "idle"

(* Reload r ran alone, over unchanged files, and has finished: its file    *)
(* loop has returned and every progress callback it started has ended.     *)
RanAlone(r) == Undisturbed(r) /\ Finished(r)

(* C1: after a reload that read and parsed every located file, the keys of *)
(* the store are exactly the fullNames declared in the located files.      *)
C1_StoreIsDeclared ==
    \A r \in Reloads :
        (RanAlone(r) /\ workspaceOpen /\ Len(disk) > 0 /\ AllFilesOk)
            => DOMAIN salesforceLabels = DeclaredNames

(* C2: at every suspension point of a reload the store is either the       *)
(* complete content from before the reload or the complete content the     *)
(* files declare.                                                          *)
C2_NoPartialStore ==
    \A r \in Reloads :
        (Undisturbed(r) /\ InProgress(r) /\ AllFilesOk)
            => \/ salesforceLabels = reload[r].pre
               \/ DOMAIN salesforceLabels = DeclaredNames

(* C3: when two located files declare the same fullName, the store holds,  *)
(* after a reload of the loader that keeps the store across files, the     *)
(* record of the file that is last in locator order.                       *)
C3_LastFileWins ==
    \A r \in Reloads :
        (revision = "load" /\ RanAlone(r) /\ workspaceOpen /\ AllFilesOk)
            => \A f1, f2 \in DOMAIN disk : \A n \in DeclaredIn(f1) \cap DeclaredIn(f2) :
                  (f1 < f2 /\ \A g \in DOMAIN disk : g > f2 => n \notin DeclaredIn(g))
                      => /\ n \in DOMAIN salesforceLabels
                         /\ salesforceLabels[n].value = ValueIn(f2)

(* C4: a reload called while an earlier reload's file loop is running does *)
(* not write to the store before that loop has completed.                  *)
HasWritten(r) ==
    \E f \in Files : tasks[r][f].st # "none" /\ (tasks[r][f].i > 0 \/ revision = "main")

C4_ReloadsDoNotOverlap ==
    \A r1, r2 \in Reloads : (r1 < r2 /\ LoopRunning(r1)) => ~HasWritten(r2)

(* C5: a second reload over unchanged files leaves the store as the first  *)
(* reload left it.                                                         *)
C5_ReloadIdempotent ==
    \A r \in Reloads \ {1} :
        (RanAlone(r) /\ Finished(1) /\ reload[1].alone /\ edits = 0)
            => salesforceLabels = reload[r].pre

(* C7: a file whose read or parse fails is reported for that file only,    *)
(* and every other located file of the reload, before or after it, has     *)
(* its batch started and all its labels stored.                            *)
FailureTexts == {"read-failed", "parse-failed"}

C7_FailureIsolated ==
    /\ \A m \in notices : m.text \in FailureTexts => disk[m.file].kind # "ok"
    /\ \A r \in Reloads : reload[r].pc = "done" =>
          \A k \in 1..Len(reload[r].files) :
             LET f == reload[r].files[k]
                 t == tasks[r][f]
             IN  IF disk[f].kind = "ok"
                 THEN /\ t.st # "none"
                      /\ edits = 0 => t.labels = ParseLabels(disk[f].entries)
                      /\ Finished(r) =>
                            /\ t.i = Len(t.labels)
                            /\ revision # "main" =>
                                  \A i \in 1..Len(t.labels) :
                                      KeyOf(t.labels[i]) \in DOMAIN salesforceLabels
                 ELSE /\ t.st = "none"
                      /\ \E m \in notices : m.text \in FailureTexts /\ m.file = f

(* A reload has finished in which the first file failed and the second     *)
(* file's labels are in the store.                                         *)
C7_Witness ==
    \E r \in Reloads :
        /\ Finished(r) /\ Len(reload[r].files) = 2 /\ revision = "load"
        /\ disk[1].kind # "ok"
        /\ disk[2].kind = "ok" /\ Len(disk[2].entries) = 2
        /\ DeclaredIn(2) \subseteq DOMAIN salesforceLabels
        /\ tasks[r][2].i = 2

(* -------------------- claims on the creation workflow ----------------- *)

WorkflowWrites == wf.pc = "write" /\ wf'.pc # "write"
TargetDecided == wf.pc = "desc" /\ wf'.pc # "desc"
EntriesOf(f) == {disk[f].entries[i] : i \in 1..Len(disk[f].entries)}

(* C6: the upsert of the creation workflow for label X adds or replaces    *)
(* the entry keyed X and nothing else: every other key keeps its record    *)
(* and no key is removed.                                                  *)
C6_UpsertTouchesOneEntry ==
    [][WorkflowWrites =>
          /\ DOMAIN salesforceLabels' = (DOMAIN salesforceLabels) \cup {wf.labelName}
          /\ salesforceLabels'[wf.labelName] = NewLabel(wf)
          /\ \A n \in (DOMAIN salesforceLabels) \ {wf.labelName} :
                salesforceLabels'[n] = salesforceLabels[n]]_vars

(* The workflow has replaced the loaded record of A and the loaded record  *)
(* of B is still in the store.                                             *)
C6_Witness ==
    /\ wf.outcome = "created" /\ wf.labelName = "A"
    /\ DOMAIN salesforceLabels = {"A", "B"}
    /\ salesforceLabels["A"] = NewLabel(wf)
    /\ salesforceLabels["B"] = ParsedLabel(Entry("B", ValueIn(1)))

(* C8: once the user has dismissed a prompt of the workflow, the workflow  *)
(* writes no label file, does not change the store and reports no error.   *)
C8_DismissalWritesNothing ==
    wf.dismissed # {} =>
        /\ wf.outcome # "created"
        /\ \A m \in notices : ~(m.kind = "error" /\ m.text = "no-file-selected")

(* C9: with an empty label file set the workflow ends, whatever the user   *)
(* answered, with the error notification; it writes no file and does not   *)
(* change the store.                                                       *)
C9_NoFilesIsAnError ==
    /\ [](Len(labelFiles) = 0 =>
            /\ wf.pc \notin {"file", "read", "write", "activate"}
            /\ wf.outcome \notin {"created", "no-file-selected"})
    /\ [][(TargetDecided /\ Len(labelFiles) = 0) =>
            /\ wf'.pc = "done"
            /\ Notice("error", "labels-not-found", 0) \in notices'
            /\ disk' = disk
            /\ salesforceLabels' = salesforceLabels]_vars

(* Every prompt was answered, no label file exists, and the workflow has    *)
(* ended with the error notification.                                      *)
C9_Witness ==
    /\ wf.pc = "done" /\ wf.outcome = "no-files" /\ wf.dismissed = {}
    /\ wf.shortDescription = "Desc" /\ wf.protected = "true"
    /\ workspaceOpen /\ Len(disk) = 0 /\ Len(labelFiles) = 0
    /\ Notice("error", "labels-not-found", 0) \in notices
    /\ DOMAIN salesforceLabels = {}

(* C10: the workflow writes one label file: with several label files the   *)
(* user is asked and the file picked is the one written, with one label    *)
(* file that file is written without a prompt, and the content of every    *)
(* other label file stays as it is.                                        *)
C10_WritesOnlyTheChosenFile ==
    /\ [](wf.pc \in {"read", "write"} =>
            /\ wf.target \in DOMAIN disk
            /\ Len(labelFiles) > 1 => wf.picked = wf.target
            /\ Len(labelFiles) = 1 => (wf.picked = 0 /\ wf.target = labelFiles[1]))
    /\ [][/\ (TargetDecided /\ Len(labelFiles) > 1) => wf'.pc = "file"
          /\ (TargetDecided /\ Len(labelFiles) = 1) => wf'.pc = "read"
          /\ disk' # disk =>
                /\ WorkflowWrites
                /\ DOMAIN disk' = DOMAIN disk
                /\ disk'[wf.target] = wf.newContent
                /\ \A g \in DOMAIN disk : g # wf.target => disk'[g] = disk[g]
          /\ wf.pc \in {"activate", "done"} => disk' = disk]_vars

(* Two label files, the user picked the second one, and the new entry is   *)
(* in the second file only.                                                *)
C10_Witness ==
    /\ wf.outcome = "created" /\ Len(labelFiles) = 2
    /\ wf.picked = 2 /\ wf.target = 2
    /\ disk[1].kind = "ok" /\ disk[2].kind = "ok"
    /\ NewEntry(wf) \in EntriesOf(2)
    /\ NewEntry(wf) \notin EntriesOf(1)
    /\ Len(disk[1].entries) = 2

(* C11: the write of the workflow puts exactly one new entry, the one of   *)
(* the new label, immediately before the closing root element of the       *)
(* target file, after all the entries the file had, which stay as they     *)
(* were, whether the file had zero, one or several entries.                *)
C11_InsertsBeforeClosingRoot ==
    [][WorkflowWrites =>
          LET old == disk[wf.target].entries
              new == disk'[wf.target].entries
          IN  /\ disk'[wf.target].kind = "ok"
              /\ Len(new) = Len(old) + 1
              /\ SubSeq(new, 1, Len(old)) = old
              /\ new[Len(new)].fullName = wf.labelName]_vars

(* C12: when the workflow has written the file, the store holds the new    *)
(* label under its fullName with the values the user gave, and every entry *)
(* it held before; no reload has run for it; and a completion request and  *)
(* a hover request made at that point both find the new label.             *)
C12_CreatedLabelIsVisible ==
    [][WorkflowWrites =>
          LET items == CompletionItems(salesforceLabels', labelOrder')
          IN  /\ wf.labelName \in DOMAIN salesforceLabels'
              /\ salesforceLabels'[wf.labelName].value = wf.labelValue
              /\ salesforceLabels'[wf.labelName].categories = wf.categories
              /\ salesforceLabels'[wf.labelName].language = wf.language
              /\ salesforceLabels'[wf.labelName].protected = wf.protected
              /\ salesforceLabels'[wf.labelName].shortDescription = wf.shortDescription
              /\ \A n \in DOMAIN salesforceLabels : n \in DOMAIN salesforceLabels'
              /\ reload' = reload /\ tasks' = tasks
              /\ Len(Hover(salesforceLabels', "Label." \o wf.labelName, 0)) > 0
              /\ \E i \in 1..Len(items) : items[i].label = wf.labelName]_vars

(* ------------------------ claims on the providers ---------------------- *)

(* The last six characters of the text are l, a, b, e, l and a dot, each   *)
(* letter in either case.                                                  *)
EndsWithTrigger(text) ==
    /\ Len(text) >= 6
    /\ \A i \in 1..6 :
          CharAt(text, Len(text) - 6 + i) \in {CharAt("label.", i), CharAt("LABEL.", i)}

(* C13: a completion request yields suggestions exactly when the line      *)
(* prefix ends, in any letter case, with `label.`: it does for `Label.`,   *)
(* `LABEL.` and `foo.Label.`, and does not for `Labelx.` and `Label`.      *)
C13_CompletionTrigger ==
    editor.request = "completion" =>
        /\ editor.defined <=> EndsWithTrigger(editor.text)
        /\ editor.text \in {"Label.", "LABEL.", "foo.Label."} => editor.defined
        /\ editor.text \in {"Labelx.", "Label"} => ~editor.defined
        /\ ~editor.defined => Len(editor.items) = 0

(* Completion was asked for after `foo.Label.` and after `Labelx.`: two    *)
(* suggestions came for the first, whose store holds two labels.           *)
C13_Witness ==
    /\ editor.request = "completion" /\ editor.text = "foo.Label."
    /\ editor.defined /\ Len(editor.items) = 2

(* The names of the suggestions of the last completion request. *)
SuggestedNames == {editor.items[i].label : i \in 1..Len(editor.items)}

(* C14: when the trigger matches, the completion provider returns one      *)
(* suggestion for each entry of the store; a record that cannot be         *)
(* formatted takes no other record's suggestion away.                      *)
C14_OneSuggestionPerEntry ==
    (editor.request = "completion" /\ editor.defined) =>
        /\ SuggestedNames \subseteq DOMAIN salesforceLabels
        /\ Len(editor.items) = Cardinality(SuggestedNames)
        /\ \A n \in DOMAIN salesforceLabels :
              salesforceLabels[n].value # Absent => n \in SuggestedNames

(* C15: every suggestion carries the fullName of its label as the text to  *)
(* insert and the whole value text of the label as its detail, for a label *)
(* loaded from a file and for a label the workflow added to the store.     *)
C15_SuggestionCarriesNameAndValue ==
    (editor.request = "completion" /\ editor.defined) =>
        \A i \in 1..Len(editor.items) :
            LET item == editor.items[i]
            IN  /\ item.label \in DOMAIN salesforceLabels
                /\ item.label = salesforceLabels[item.label].fullName
                /\ item.detail = salesforceLabels[item.label].value

(* The character hovered is one of the token, or the one next to it. *)
HoverInsideToken ==
    editor.tokenStart <= editor.character /\ editor.character < editor.tokenEnd
HoverBeforeToken == editor.character + 1 = editor.tokenStart
HoverAfterToken == editor.character = editor.tokenEnd

(* The hover shown is the one of the store record named by the token. *)
HoverShowsToken ==
    /\ editor.defined
    /\ editor.hover[1] = HoverLine("Label Name", editor.tokenName)
    /\ salesforceLabels[editor.tokenName].value # Absent =>
          editor.hover[2] = HoverLine("Value", salesforceLabels[editor.tokenName].value)

(* C16: hovering any character of a token `Label.X` or `System.Label.X`    *)
(* (qualifier in any letter case) shows the record the store holds for X,  *)
(* the same for both forms; hovering the character just before or just     *)
(* after the token, or a token whose name is no key of the store, shows no *)
(* hover.                                                                  *)
C16_HoverResolvesToken ==
    editor.request = "hover" =>
        /\ (HoverInsideToken /\ editor.tokenName \in DOMAIN salesforceLabels)
              => HoverShowsToken
        /\ (HoverInsideToken /\ editor.tokenName \notin DOMAIN salesforceLabels)
              => ~editor.defined
        /\ (HoverBeforeToken \/ HoverAfterToken) => ~editor.defined

(* The places of the lines of the last hover that have the caption given. *)
HoverLinesOf(captions) ==
    {i \in 1..Len(editor.hover) : editor.hover[i].caption \in captions}

(* C17: the hover of a label that has a protection flag shows it on one    *)
(* line, as Yes for a protected label and as No for a label that is not    *)
(* protected, after the name, the value, the category and the short        *)
(* description and before the language.                                    *)
C17_HoverShowsProtection ==
    (editor.request = "hover" /\ editor.defined) =>
        LET label == salesforceLabels[editor.hover[1].text]
        IN  label.protected \in {"true", "false"} =>
              /\ Cardinality(HoverLinesOf({"Protected"})) = 1
              /\ \A i \in HoverLinesOf({"Protected"}) :
                    /\ editor.hover[i].text = IF label.protected = "true" THEN "Yes" ELSE "No"
                    /\ \A j \in HoverLinesOf({"Label Name", "Value", "Category",
                                              "Short Description"}) : j < i
                    /\ \A j \in HoverLinesOf({"Language"}) : j > i

(* ------------------------------------------------------------------------ *)
(* claims on the workflow's prompts                                          *)
(* ------------------------------------------------------------------------ *)

(* The trimmed comma segments of the categories text of one record. *)
SegmentsOf(label) ==
    IF label.categories = NoCategories \/ label.categories = <<"">> THEN {}
    ELSE {Trim(label.categories[i]) : i \in 1..Len(label.categories)}

WrittenEntries ==
    {disk'[wf.target].entries[i] : i \in 1..Len(disk'[wf.target].entries)}
        \ {disk[wf.target].entries[i] : i \in 1..Len(disk[wf.target].entries)}

(* C19: a short description left blank becomes the name of the label, with *)
(* the namespace prefix when one was prepended; an entered one is kept as  *)
(* entered; and the entry written to the file and the record put in the    *)
(* store hold that same short description.                                 *)
C19_ShortDescriptionDefault ==
    [][(WorkflowWrites /\ disk[wf.target].kind = "ok") =>
          LET expected == IF "shortDescription" \in wf.dismissed
                          THEN wf.labelName ELSE wf.shortDescription
          IN  /\ "shortDescription" \notin wf.dismissed => wf.shortDescription \in TypedDescriptions
              /\ salesforceLabels'[wf.labelName].shortDescription = expected
              /\ \A e \in WrittenEntries : e.shortDescription = expected]_vars

UpdatingText == "Updating package.json version..."
UpdatedText == "Updated package.json version"

(* setStatusBarText(text): with a widget the id is incremented and the     *)
(* text shown; the id returned is lastMessageId either way.                *)
SetStatusBarText(a, text) ==
    LET b == IF a.statusBarIdentifier.exists
             THEN [a EXCEPT !.lastMessageId = @ + 1,
                            !.statusBarIdentifier.text = text,
                            !.statusBarIdentifier.shown = TRUE]
             ELSE a
    IN  [b EXCEPT !.returned = Append(@, b.lastMessageId)]

(* (messageId && lastMessageId) && messageId < lastMessageId *)
ClearSkipped(a, messageId) ==
    (messageId # 0 /\ a.lastMessageId # 0) /\ messageId < a.lastMessageId

(* A clear that does not look at the id of its message. *)
ClearAndHideStatusBarTextAlways(a, messageId) ==
    IF a.statusBarIdentifier.exists
    THEN [a EXCEPT !.statusBarIdentifier.text = "", !.statusBarIdentifier.shown = FALSE]
    ELSE a

(* clearAndHideStatusBarText(messageId) *)
ClearAndHideStatusBarText(a, messageId) ==
    IF ClearSkipped(a, messageId) THEN a
    ELSE IF a.statusBarIdentifier.exists
    THEN [a EXCEPT !.statusBarIdentifier.text = "", !.statusBarIdentifier.shown = FALSE]
    ELSE a

watcherVars == <<revision, workspaceOpen, disk, edits, activation, storeVars, labelFiles,
                 activeLabelCategories, reload, tasks, namespace, wf, editor, providers>>

(* sfdx-project.json is saved with some content: onDidChange calls the     *)
(* handler, which runs to its read of package.json.                        *)
SfdxProjectChanged(h, content) ==
    /\ app.handlers[h].pc = "idle"
    /\ \A g \in Events : g < h => app.handlers[g].pc # "idle"
    /\ app' = [app EXCEPT !.sfdxProject = content, !.handlers[h].pc = "readPackage"]
    /\ UNCHANGED <<watcherVars, notices>>

(* The read of package.json resolves: without settings the handler         *)
(* returns, with settings it sets the first status message and reads       *)
(* sfdx-project.json.                                                      *)
PackageJsonParsed(h) ==
    /\ app.handlers[h].pc = "readPackage"
    /\ app' = IF ~app.packageJson.salesforce.defined
              THEN [app EXCEPT !.handlers[h].packageJsonObj = app.packageJson,
                               !.handlers[h].pc = "done"]
              ELSE [SetStatusBarText(app, UpdatingText) EXCEPT
                       !.handlers[h].packageJsonObj = app.packageJson,
                       !.handlers[h].pc = "readProject"]
    /\ UNCHANGED <<watcherVars, notices>>

(* The names of the copy steps whose call threw. *)
FailedSteps(name, description, version, link) ==
    {step \in {"copyProjectName", "copyProjectDescription", "copyVersion",
               "setUpInstallationLink"} :
        \/ step = "copyProjectName" /\ name.threw
        \/ step = "copyProjectDescription" /\ description.threw
        \/ step = "copyVersion" /\ version.threw
        \/ step = "setUpInstallationLink" /\ link.threw}

(* The read of sfdx-project.json resolves: without a default package       *)
(* directory the handler shows an error and returns; otherwise the copy    *)
(* steps run and the write of package.json starts.  The watcher of         *)
(* main.ts calls the four copiers, which are async functions, without      *)
(* awaiting them: a copier that throws rejects its promise and the handler *)
(* goes on.  The inlined watcher has the first three steps in its body and *)
(* returns with an error message on a short version number.                *)
SfdxProjectParsed(h) ==
    /\ app.handlers[h].pc = "readProject"
    /\ LET me == app.handlers[h]
           sfdxProjectJson == app.sfdxProject
           settings == me.packageJsonObj.salesforce
           name == CopyProjectName(settings, me.packageJsonObj, sfdxProjectJson)
           description == CopyProjectDescription(settings, name.packageJsonObj,
                                                 sfdxProjectJson)
           version == CopyVersion(settings, description.packageJsonObj, sfdxProjectJson)
           link == IF app.watcher = "main"
                   THEN SetUpInstallationLink(settings, sfdxProjectJson,
                                              version.packageJsonObj)
                   ELSE Outcome(FALSE, version.packageJsonObj)
           failed == FailedSteps(name, description, version, link)
       IN  IF ~sfdxProjectJson.hasDefault
           THEN /\ notices' = notices \cup {Notice("error", "no-default-directory", 0)}
                /\ app' = [app EXCEPT !.handlers[h].sfdxProjectJson = sfdxProjectJson,
                                      !.handlers[h].pc = "done"]
           ELSE IF app.watcher = "inlined" /\ version.threw
           THEN /\ notices' = notices \cup {Notice("error", "invalid-version", 0)}
                /\ app' = [app EXCEPT !.handlers[h].sfdxProjectJson = sfdxProjectJson,
                                      !.handlers[h].packageJsonObj = description.packageJsonObj,
                                      !.handlers[h].failed = failed,
                                      !.handlers[h].pc = "done"]
           ELSE /\ notices' = notices
                /\ app' = [app EXCEPT !.handlers[h].sfdxProjectJson = sfdxProjectJson,
                                      !.handlers[h].packageJsonObj = link.packageJsonObj,
                                      !.handlers[h].failed = failed,
                                      !.handlers[h].pc = "write"]
    /\ UNCHANGED watcherVars

(* The write of package.json resolves: the second status message is set    *)
(* and its clear is scheduled three seconds later.                         *)
PackageJsonWritten(h) ==
    /\ app.handlers[h].pc = "write"
    /\ LET written == [app EXCEPT !.packageJson = app.handlers[h].packageJsonObj]
           said == SetStatusBarText(written, UpdatedText)
       IN  app' = [said EXCEPT !.handlers[h].wrote = TRUE,
                               !.handlers[h].updated = TRUE,
                               !.handlers[h].msgId = said.lastMessageId,
                               !.handlers[h].timer = "pending",
                               !.handlers[h].pc = "done"]
    /\ UNCHANGED <<watcherVars, notices>>

(* The three seconds of a handler's timer are over. *)
ClearTimerFires(h) ==
    /\ app.handlers[h].timer = "pending"
    /\ app' = [ClearAndHideStatusBarText(app, app.handlers[h].msgId) EXCEPT
                  !.handlers[h].timer =
                      IF ClearSkipped(app, app.handlers[h].msgId) THEN "skipped"
                      ELSE "cleared"]
    /\ UNCHANGED <<watcherVars, notices>>

(* The files the watcher runs on. *)
WatcherSettings ==
    {NoSettings, Salesforce(TRUE, TRUE, TRUE, TRUE, TRUE),
     Salesforce(TRUE, FALSE, FALSE, TRUE, FALSE),
     Salesforce(TRUE, FALSE, FALSE, FALSE, TRUE),
     Salesforce(TRUE, TRUE, TRUE, FALSE, FALSE)}

WatcherPackages == {PackageJson(f, "oldName", "oldDescription", "0.0.0") : f \in WatcherSettings}

WatcherProjects ==
    {SfdxProject("myProject", TRUE, "My project description", "1.0.0.NEXT", TestAliases, Absent),
     SfdxProject("myProject", TRUE, "My project description", "1.0", TestAliases, Absent),
     SfdxProject("myProject", TRUE, "My project description", "1.2.0.NEXT", <<ThePackage>>, Absent),
     SfdxProject("myProject", FALSE, "My project description", "1.0.0.NEXT", TestAliases, Absent)}

Changed == \E h \in Events, content \in WatcherProjects : SfdxProjectChanged(h, content)
PackageParsed == \E h \in Events : PackageJsonParsed(h)
ProjectParsed == \E h \in Events : SfdxProjectParsed(h)
Written == \E h \in Events : PackageJsonWritten(h)
ClearTimer == \E h \in Events : ClearTimerFires(h)

(* The status bar widget is set up before the watcher, or not at all. *)
InitWatcher ==
    /\ revision = "store"
    /\ disk = <<>>
    /\ InitCommon
    /\ namespace = ""
    /\ wf = IdleWorkflow
    /\ \E p \in WatcherPackages, x \in WatcherProjects,
          w \in {"main", "inlined"}, e \in BOOLEAN :
          app = [AppOver(p, x) EXCEPT !.watcher = w, !.statusBarIdentifier.exists = e]

NextWatcher ==
    \/ Changed
    \/ PackageParsed
    \/ ProjectParsed
    \/ Written
    \/ ClearTimer

SpecWatcher == InitWatcher /\ [][NextWatcher]_vars

(* ------------------------ claims on the quick fixes -------------------- *)

(* C21: for a non-empty selection the quick fixes contain an action that   *)
(* creates a label with the selected text, without its surrounding single  *)
(* quotes, as the provided value, and an action that uses label L for      *)
(* every label L of the store whose value is that text, whether L was      *)
(* loaded from a file or created by the workflow.                          *)
C21_QuickFixesOffered ==
    (editor.request = "codeActions" /\ editor.text # "") =>
        LET proposed == ProposedLabelValue(editor.text)
            offered == {editor.actions[i] : i \in 1..Len(editor.actions)}
        IN  /\ CodeAction("create", Absent, proposed) \in offered
            /\ \A n \in DOMAIN salesforceLabels :
                  salesforceLabels[n].value = proposed =>
                      CodeAction("useExisting", n, Absent) \in offered

(* ------------------------ claims on deactivation ----------------------- *)

(* C22: once the extension is deactivated the store is empty for every     *)
(* consumer: no name is a key of it and a completion request lists no      *)
(* label.                                                                  *)
C22_EmptyAfterDeactivation ==
    activation = "deactivated" =>
        /\ \A n \in Names : n \notin DOMAIN salesforceLabels
        /\ CompletionItems(salesforceLabels, labelOrder) = <<>>

(* ------------------------ claims on the copiers ------------------------ *)

(* C23: copyVersion with its setting enabled sets the version of the       *)
(* package.json object to the first three dot-separated parts of the       *)
(* versionNumber (1.0.0.NEXT gives 1.0.0, 1.2.0.NEXT gives 1.2.0); for a   *)
(* versionNumber of fewer than three parts it signals an error and leaves  *)
(* the version as it was; with the setting disabled or no settings it      *)
(* leaves the version as it was.                                           *)
C23_CopyVersion ==
    app.call.fn = "copyVersion" =>
        LET settings == app.packageJson.salesforce
            versionNumber == app.sfdxProject.versionNumber
            parts == Split(versionNumber, ".")
        IN  IF settings.defined /\ settings.copyVersionToPackageJson
            THEN IF Len(parts) >= 3
                 THEN /\ ~app.call.threw
                      /\ app.packageJsonObj.version = Join(SubSeq(parts, 1, 3), ".")
                      /\ versionNumber = "1.0.0.NEXT" => app.packageJsonObj.version = "1.0.0"
                      /\ versionNumber = "1.2.0.NEXT" => app.packageJsonObj.version = "1.2.0"
                 ELSE /\ app.call.threw
                      /\ app.packageJsonObj.version = app.packageJson.version
            ELSE /\ ~app.call.threw
                 /\ app.packageJsonObj.version = app.packageJson.version

(* The number a text of digits denotes. *)
RECURSIVE NumberOf(_)
NumberOf(digits) ==
    IF Len(digits) = 0 THEN 0
    ELSE 10 * NumberOf(SubSeq(digits, 1, Len(digits) - 1))
         + (IndexIn("0123456789", CharAt(digits, Len(digits))) - 1)

(* The aliases of the builds of the default package version: name@x.y.z-n  *)
(* with x.y.z the first three parts of the versionNumber.                  *)
BuildsOfDefaultVersion ==
    LET project == app.sfdxProject
        version == Join(SubSeq(Split(project.versionNumber, "."), 1, 3), ".")
    IN  {i \in 1..Len(project.packageAliases) :
            LET atParts == Split(project.packageAliases[i].alias, "@")
            IN  /\ Len(atParts) = 2
                /\ atParts[1] = project.name
                /\ Len(Split(atParts[2], "-")) = 2
                /\ Split(atParts[2], "-")[1] = version}

BuildNumber(i) == NumberOf(Split(app.sfdxProject.packageAliases[i].alias, "-")[2])

(* C24: setUpInstallationLink with its setting enabled sets                *)
(* salesforce.packageVersionUrl to the login URL of the project (or        *)
(* https://login.salesforce.com), /packaging/installPackage.apexp?p0= and  *)
(* the id of the alias of the highest build of the default package         *)
(* version, whatever the order of the aliases; with the setting disabled   *)
(* it leaves packageVersionUrl as it was.                                  *)
C24_InstallationLink ==
    app.call.fn = "setUpInstallationLink" =>
        LET settings == app.packageJson.salesforce
            project == app.sfdxProject
            prefix == IF project.sfdcLoginUrl = Absent THEN "https://login.salesforce.com"
                      ELSE project.sfdcLoginUrl
        IN  IF settings.defined /\ settings.setUpInstallationLink
            THEN (project.hasDefault /\ Len(Split(project.versionNumber, ".")) >= 3) =>
                   \A i \in BuildsOfDefaultVersion :
                      (\A j \in BuildsOfDefaultVersion : BuildNumber(j) <= BuildNumber(i)) =>
                          app.packageJsonObj.salesforce.packageVersionUrl =
                              prefix \o "/packaging/installPackage.apexp?p0="
                                     \o project.packageAliases[i].id
            ELSE app.packageJsonObj.salesforce.packageVersionUrl =
                     app.packageJson.salesforce.packageVersionUrl

(* C25: copyProjectName and copyProjectDescription copy the project name   *)
(* and the versionDescription of the default package directory into the   *)
(* name and the description of the package.json object exactly when their  *)
(* own flag is set; with the flag unset or no settings the target is as it *)
(* was; and no other field of the object changes.                          *)
C25_CopyNameAndDescription ==
    LET settings == app.packageJson.salesforce
    IN  /\ app.call.fn = "copyProjectName" =>
              /\ ~app.call.threw
              /\ app.packageJsonObj =
                    IF settings.defined /\ settings.copyProjectNameToPackageJson
                    THEN [app.packageJson EXCEPT !.name = app.sfdxProject.name]
                    ELSE app.packageJson
        /\ app.call.fn = "copyProjectDescription" =>
              /\ ~app.call.threw
              /\ app.packageJsonObj =
                    IF settings.defined /\ settings.copyProjectDescriptionToPackageJson
                    THEN [app.packageJson EXCEPT
                             !.description = app.sfdxProject.versionDescription]
                    ELSE app.packageJson

(* The description was copied over another one while the name, whose flag  *)
(* is set too, stayed.                                                     *)
C25_Witness ==
    /\ app.call.fn = "copyProjectDescription"
    /\ app.packageJson.salesforce.copyProjectDescriptionToPackageJson
    /\ app.packageJson.salesforce.copyProjectNameToPackageJson
    /\ app.packageJson.description = "oldDescription"
    /\ app.packageJsonObj.description = "My project description"
    /\ app.packageJsonObj.name = "oldName"

(* ------------------------ claims on the reload's return ---------------- *)

(* C26: once loadLabelsInWorkspace has returned to its caller, no label of *)
(* that reload is stored any more: every insertion of a reload happens     *)
(* before its return.                                                      *)
C26_PopulatedAtReturn ==
    [][\A r \in Reloads, f \in Files :
          reload[r].pc = "done" => tasks'[r][f].i = tasks[r][f].i]_vars

(* ---------------------- claims on the created label -------------------- *)

(* C27: a label the workflow has created and reported is declared in the   *)
(* file it was written to: the success notice and the upsert follow a      *)
(* write whose content has an entry of that name, also when the file had   *)
(* no entry before.                                                        *)
C27_CreatedLabelIsOnDisk ==
    wf.outcome = "created" =>
        /\ wf.labelName \in DOMAIN salesforceLabels
        /\ Notice("info", "created", wf.target) \in notices
        /\ \E i \in 1..Len(disk[wf.target].entries) :
              disk[wf.target].entries[i].fullName = wf.labelName

(* -------------------- claims on provider registrations ----------------- *)

(* C28: never more than one completion provider and one hover provider of  *)
(* the labels are live, and from the registration of the activation on     *)
(* there is exactly one of each, whatever forced reloads and creations     *)
(* follow: a re-registration ends the previous registration first.         *)
C28_OneRegistrationEach ==
    /\ providers.completion <= 1
    /\ providers.hover <= 1
    /\ providers.activated => providers.completion = 1 /\ providers.hover = 1
    /\ wf.outcome = "created" /\ wf.pc = "done" /\ revision = "store" =>
          providers.completion = 1 /\ providers.hover = 1

(* The providers were registered again by a forced reload. *)
C28_Witness ==
    /\ revision = "main"
    /\ \E r \in Reloads \ {1} : reload[r].pc = "done"
    /\ providers.completion = 1
    /\ providers.hover = 1

(* ------------------------ claims on the file watcher ------------------- *)

(* C29: a handler of a change of sfdx-project.json writes package.json and *)
(* shows 'Updated package.json version' only when package.json has        *)
(* settings, a default package directory exists and no copy step failed.   *)
C29_WritesOnlyAfterSuccess ==
    \A h \in Events :
        LET me == app.handlers[h]
        IN  (me.wrote \/ me.updated) =>
                /\ me.packageJsonObj.salesforce.defined
                /\ me.sfdxProjectJson.hasDefault
                /\ me.failed = {}

(* C30: the ids returned by setStatusBarText increase strictly while the   *)
(* widget exists, and a timer that changes the status bar is the timer of  *)
(* the message set last: no message was set after the one it clears.       *)
C30_OlderTimerNeverClears ==
    /\ [](app.statusBarIdentifier.exists =>
             \A i, j \in 1..Len(app.returned) :
                 i < j => app.returned[i] < app.returned[j])
    /\ [][\A h \in Events :
             (/\ app.handlers[h].timer = "pending"
              /\ app'.handlers[h].timer # "pending"
              /\ app'.statusBarIdentifier # app.statusBarIdentifier)
             => app.handlers[h].msgId = app.lastMessageId]_vars

(* Two changes within the delay: the timer of the first has fired and left *)
(* the message of the second, whose timer is still pending, on display.    *)
C30_Witness ==
    /\ app.handlers[1].timer = "skipped"
    /\ app.handlers[2].timer = "pending"
    /\ app.handlers[1].msgId < app.handlers[2].msgId
    /\ app.statusBarIdentifier.shown
    /\ app.statusBarIdentifier.text = UpdatedText

====
